---- MODULE Spec2Model ----
(***************************************************************************)
(* Model of the privacy configuration loader (PrivacyConfigLoader) and of  *)
(* the email masker (maskEmail, applyEmailPrivacy) of google-calendar-mcp. *)
(*                                                                         *)
(* JavaScript values are records [t |-> <typeof-like tag>, v |-> payload]. *)
(* Strings are sequences of one-character strings, so that indexOf, slice, *)
(* charAt and toLowerCase are computed and not assumed.                    *)
(***************************************************************************)
EXTENDS Integers, Sequences, FiniteSets, Bags, TLC

VARIABLES
  instance,   \* PrivacyConfigLoader.instance: 0 (null) or the index of a loader in objs
  objs,       \* the loaders constructed so far: [config, lastLoadTime]
  calls,      \* the bag of loadConfig() calls in flight: receiver, position in the async body, read result
  now,        \* Date.now()
  file,       \* what fs.readFile(configPath) finds on disk
  nodeEnv,    \* process.env.NODE_ENV
  PRIVACY_CONFIG_PATH, \* process.env.PRIVACY_CONFIG_PATH: undefined or a string
  XDG_CONFIG_HOME,     \* process.env.XDG_CONFIG_HOME: undefined or a string
  configPath, \* per loader: its configPath field
  ev,         \* the last operation and what it did (return value, reads, diagnostics)
  hist,       \* whether this behaviour records the history of its loader in the next four variables
  doneAt,     \* history: time the latest loadConfig() completed since the last invalidateCache(), or -1
  loadedAt,   \* history: time the latest loadConfig() that read the file completed since the last invalidateCache(), or -1
  invalidated,\* history: invalidateCache() returned and no loadConfig() was started since
  prior,      \* history: the config the latest resumed loadConfig() found cached
  changedSinceRead, \* history: the file was written after the latest read was started
  succeededAt,\* history: time the latest loadConfig() that read and validated the file completed, or -1
  DEFAULT_PRIVACY_CONFIG, \* the object the constant names, with the object its emailMappings property names
  pin,        \* pure functions: the arguments of the call
  pout        \* pure functions: the result of the call

hvars == <<hist, doneAt, loadedAt, invalidated, prior, succeededAt, changedSinceRead>>
evars == <<PRIVACY_CONFIG_PATH, XDG_CONFIG_HOME>>
lvars ==
  <<instance, objs, calls, now, file, nodeEnv, DEFAULT_PRIVACY_CONFIG, PRIVACY_CONFIG_PATH,
    XDG_CONFIG_HOME, configPath,
    ev, hist, doneAt, loadedAt, invalidated, prior, succeededAt, changedSinceRead>>
pvars == <<pin, pout>>
vars ==
  <<instance, objs, calls, now, file, nodeEnv, DEFAULT_PRIVACY_CONFIG, PRIVACY_CONFIG_PATH,
    XDG_CONFIG_HOME, configPath,
    ev, hist, doneAt, loadedAt, invalidated, prior, succeededAt, changedSinceRead, pin, pout>>

----------------------------------------------------------------------------
(* Bounds *)

MaxInstances == 2   \* loaders constructed
MaxCalls == 2       \* loadConfig() calls in flight at once
MaxTicks == 2       \* clock advances
MaxLen == 3         \* length of the enumerated email strings
MaxEntries == 2     \* entries of an emailMappings object in the file

----------------------------------------------------------------------------
(* JavaScript values *)

Undef == [t |-> "undefined", v |-> 0]
Null == [t |-> "null", v |-> 0]
Num(n) == [t |-> "number", v |-> n]
Str(s) == [t |-> "string", v |-> s]
\* a plain object: v is a function from property keys (strings) to values
Obj(m) == [t |-> "object", v |-> m]
\* an object produced by JSON.parse: v is the sequence of its own entries <<key, value>>
Parsed(entries) == [t |-> "parsed", v |-> entries]
EmptyMap == [k \in {} |-> Undef]

\* typeof
TypeOf(x) == IF x.t \in {"null", "parsed"} THEN "object" ELSE x.t

\* ToBoolean
Truthy(x) ==
  CASE x.t = "undefined" -> FALSE
    [] x.t = "null" -> FALSE
    [] x.t = "boolean" -> x.v
    [] x.t = "number" -> x.v # 0
    [] x.t = "string" -> x.v # <<>>
    [] OTHER -> TRUE

\* a || b
Or(a, b) == IF Truthy(a) THEN a ELSE b

UpperChars == {"A", "B", "C", "X"}
LowerChar(c) ==
  CASE c = "A" -> "a"
    [] c = "B" -> "b"
    [] c = "C" -> "c"
    [] c = "X" -> "x"
    [] OTHER -> c

\* String.prototype.toLowerCase
ToLowerCase(s) == [i \in 1..Len(s) |-> LowerChar(s[i])]

\* String.prototype.includes(c)
Includes(s, c) == \E i \in 1..Len(s) : s[i] = c

\* String.prototype.indexOf(c), 0-based, -1 when absent
IndexOf(s, c) ==
  IF Includes(s, c)
    THEN (CHOOSE i \in 1..Len(s) : s[i] = c /\ \A j \in 1..(i - 1) : s[j] # c) - 1
    ELSE -1

\* String.prototype.lastIndexOf(c)
LastIndexOf(s, c) ==
  IF Includes(s, c)
    THEN (CHOOSE i \in 1..Len(s) : s[i] = c /\ \A j \in (i + 1)..Len(s) : s[j] # c) - 1
    ELSE -1

\* String.prototype.slice(from, to) and slice(from), 0-based, to exclusive
Slice(s, from, to) == SubSeq(s, from + 1, to)
SliceFrom(s, from) == SubSeq(s, from + 1, Len(s))

\* String.prototype.charAt(i): "" when out of range
CharAt(s, i) == IF i + 1 \in 1..Len(s) THEN <<s[i + 1]>> ELSE <<>>

\* Names every object inherits from Object.prototype that toLowerCase can produce
ConstructorKey == <<"c", "o", "n", "s", "t", "r", "u", "c", "t", "o", "r">>
ProtoKey == <<"_", "_", "p", "r", "o", "t", "o", "_", "_">>
ObjectPrototypeKeys == {ConstructorKey, ProtoKey}

\* key in obj: own properties, then the prototype chain
In(k, o) == k \in DOMAIN o.v \/ k \in ObjectPrototypeKeys

\* obj[key]
Get(o, k) ==
  IF k \in DOMAIN o.v THEN o.v[k]
  ELSE IF k = ConstructorKey THEN [t |-> "function", v |-> 0]
  ELSE IF k = ProtoKey THEN Obj(EmptyMap)
  ELSE Undef

\* obj[key] = value on a plain object, value a string: the __proto__ setter
\* ignores a value that is neither an object nor null
Put(o, k, x) ==
  IF k = ProtoKey /\ x.t \notin {"object", "parsed", "null"} THEN o
  ELSE Obj([j \in DOMAIN o.v \cup {k} |-> IF j = k THEN x ELSE o.v[j]])

\* the property names of PrivacyConfig
VersionKey == <<"v", "e", "r", "s", "i", "o", "n">>
EmailMappingsKey == <<"e", "m", "a", "i", "l", "M", "a", "p", "p", "i", "n", "g", "s">>
DefaultCalendarIdKey == <<"d", "e", "f", "a", "u", "l", "t", "C", "a", "l", "e", "n", "d", "a", "r", "I", "d">>

----------------------------------------------------------------------------
(* EmailMasker.ts *)

At == "@"
Stars == <<"*", "*", "*">>

\* maskEmail splitting at the last '@' instead of the first
maskEmail_lastAt(email) ==
  IF ~Truthy(email) \/ ~Includes(email.v, At)
    THEN Or(email, Str(<<>>))
    ELSE LET atIndex == LastIndexOf(email.v, At)
             localPart == Slice(email.v, 0, atIndex)
             domain == SliceFrom(email.v, atIndex + 1)
         IN IF Len(localPart) = 0
              THEN Str(Stars \o <<At>> \o domain)
              ELSE Str(CharAt(localPart, 0) \o Stars \o <<At>> \o domain)

\* maskEmail keeping the first two characters of the local part
maskEmail_twoChars(email) ==
  IF ~Truthy(email) \/ ~Includes(email.v, At)
    THEN Or(email, Str(<<>>))
    ELSE LET atIndex == IndexOf(email.v, At)
             localPart == Slice(email.v, 0, atIndex)
             domain == SliceFrom(email.v, atIndex + 1)
         IN IF Len(localPart) = 0
              THEN Str(Stars \o <<At>> \o domain)
              ELSE Str((IF Len(localPart) < 2 THEN localPart ELSE Slice(localPart, 0, 2))
                       \o Stars \o <<At>> \o domain)

maskEmail(email) ==
  IF ~Truthy(email) \/ ~Includes(email.v, At)
    THEN Or(email, Str(<<>>))
    ELSE LET atIndex == IndexOf(email.v, At)
             localPart == Slice(email.v, 0, atIndex)
             domain == SliceFrom(email.v, atIndex + 1)
         IN IF Len(localPart) = 0
              THEN Str(Stars \o <<At>> \o domain)
              ELSE Str(CharAt(localPart, 0) \o Stars \o <<At>> \o domain)

\* applyEmailPrivacy looking the email up without lowercasing it
applyEmailPrivacy_caseSensitive(email, googleDisplayName, config) ==
  IF ~Truthy(email)
    THEN [email |-> Str(<<>>), displayName |-> Or(googleDisplayName, Undef)]
    ELSE LET mappings == Or(Get(config, EmailMappingsKey), Obj(EmptyMap))
         IN IF In(email.v, mappings)
              THEN [email |-> email, displayName |-> Get(mappings, email.v)]
              ELSE [email |-> maskEmail(email),
                    displayName |-> Or(googleDisplayName, Undef)]

applyEmailPrivacy(email, googleDisplayName, config) ==
  IF ~Truthy(email)
    THEN [email |-> Str(<<>>), displayName |-> Or(googleDisplayName, Undef)]
    ELSE LET emailLower == ToLowerCase(email.v)
             mappings == Or(Get(config, EmailMappingsKey), Obj(EmptyMap))
         IN IF In(emailLower, mappings)
              THEN [email |-> email, displayName |-> Get(mappings, emailLower)]
              ELSE [email |-> maskEmail(email),
                    displayName |-> Or(googleDisplayName, Undef)]

----------------------------------------------------------------------------
(* PrivacyConfig.ts: the config type, the loader *)

\* a PrivacyConfig object with its three own properties
Config(version, emailMappings, defaultCalendarId) ==
  Obj((VersionKey :> version) @@ (EmailMappingsKey :> emailMappings)
      @@ (DefaultCalendarIdKey :> defaultCalendarId))

CACHE_TTL == 60 * 1000

\* obj.key on an object produced by JSON.parse (its keys are distinct)
Prop(o, k) ==
  IF \E i \in 1..Len(o.v) : o.v[i][1] = k
    THEN o.v[CHOOSE i \in 1..Len(o.v) : o.v[i][1] = k][2]
    ELSE Undef

\* Object.entries
ObjectEntries(o) == o.v

\* the loop storing each name under the key as written
RECURSIVE MappingsLoop_keepsCase(_, _, _)
MappingsLoop_keepsCase(entries, i, acc) ==
  IF i > Len(entries) THEN acc
  ELSE LET email == entries[i][1]
           name == entries[i][2]
       IN MappingsLoop_keepsCase(entries, i + 1,
            IF TypeOf(name) = "string" THEN Put(acc, email, name) ELSE acc)

\* the loop without the typeof test on the value
RECURSIVE MappingsLoop_keepsAllValues(_, _, _)
MappingsLoop_keepsAllValues(entries, i, acc) ==
  IF i > Len(entries) THEN acc
  ELSE LET email == entries[i][1]
           name == entries[i][2]
       IN MappingsLoop_keepsAllValues(entries, i + 1, Put(acc, ToLowerCase(email), name))

\* the for-loop of validateConfig over entries i..Len(entries), acc the object built so far
RECURSIVE MappingsLoop(_, _, _)
MappingsLoop(entries, i, acc) ==
  IF i > Len(entries) THEN acc
  ELSE LET email == entries[i][1]
           name == entries[i][2]
       IN MappingsLoop(entries, i + 1,
            IF TypeOf(name) = "string" THEN Put(acc, ToLowerCase(email), name) ELSE acc)

\* validateConfig without the truthiness test on defaultCalendarId
validateConfig_acceptsEmptyId(parsed) ==
  IF TypeOf(parsed) # "object" \/ parsed = Null
    THEN DEFAULT_PRIVACY_CONFIG
    ELSE LET obj == parsed
             version == Prop(obj, VersionKey)
             emailMappings == Prop(obj, EmailMappingsKey)
             defaultCalendarId == Prop(obj, DefaultCalendarIdKey)
         IN Config(
              IF version # Undef /\ TypeOf(version) = "number"
                THEN version ELSE Get(DEFAULT_PRIVACY_CONFIG, VersionKey),
              IF Truthy(emailMappings) /\ TypeOf(emailMappings) = "object"
                THEN MappingsLoop(ObjectEntries(emailMappings), 1, Obj(EmptyMap))
                ELSE Get(DEFAULT_PRIVACY_CONFIG, EmailMappingsKey),
              IF TypeOf(defaultCalendarId) = "string"
                THEN defaultCalendarId ELSE Get(DEFAULT_PRIVACY_CONFIG, DefaultCalendarIdKey))

validateConfig(parsed) ==
  IF TypeOf(parsed) # "object" \/ parsed = Null
    THEN DEFAULT_PRIVACY_CONFIG
    ELSE LET obj == parsed
             version == Prop(obj, VersionKey)
             emailMappings == Prop(obj, EmailMappingsKey)
             defaultCalendarId == Prop(obj, DefaultCalendarIdKey)
         IN Config(
              IF version # Undef /\ TypeOf(version) = "number"
                THEN version ELSE Get(DEFAULT_PRIVACY_CONFIG, VersionKey),
              IF Truthy(emailMappings) /\ TypeOf(emailMappings) = "object"
                THEN MappingsLoop(ObjectEntries(emailMappings), 1, Obj(EmptyMap))
                ELSE Get(DEFAULT_PRIVACY_CONFIG, EmailMappingsKey),
              IF Truthy(defaultCalendarId) /\ TypeOf(defaultCalendarId) = "string"
                THEN defaultCalendarId ELSE Get(DEFAULT_PRIVACY_CONFIG, DefaultCalendarIdKey))

\* File texts: malformed, or the text of a JSON value; an object's text lists
\* its members in order and may repeat a name
Malformed == [k |-> "malformed", v |-> Undef]
Json(x) == [k |-> "json", v |-> x]

\* JSON.parse of an object keeps one property per name, at the position of
\* its first occurrence, with the value of its last occurrence
RECURSIVE ParseMembers(_, _, _)
ParseMembers(members, i, acc) ==
  IF i > Len(members) THEN acc
  ELSE LET k == members[i][1]
           x == members[i][2]
           val == IF x.t = "parsed" THEN Parsed(ParseMembers(x.v, 1, <<>>)) ELSE x
       IN ParseMembers(members, i + 1,
            IF \E j \in 1..Len(acc) : acc[j][1] = k
              THEN [j \in 1..Len(acc) |-> IF acc[j][1] = k THEN <<k, val>> ELSE acc[j]]
              ELSE Append(acc, <<k, val>>))

Returned(x) == [ok |-> TRUE, value |-> x, error |-> "none"]
Thrown(e) == [ok |-> FALSE, value |-> Undef, error |-> e]

JSONparse(text) ==
  IF text.k = "malformed" THEN Thrown("SyntaxError")
  ELSE IF text.v.t = "parsed" THEN Returned(Parsed(ParseMembers(text.v.v, 1, <<>>)))
  ELSE Returned(text.v)

\* fs.readFile(configPath, 'utf-8') on a file in state f
readFile(f) == IF f.st = "ok" THEN Returned(f.c) ELSE Thrown(f.st)

----------------------------------------------------------------------------
(* Path resolution: node's path module on POSIX, getPrivacyConfigPath *)

\* A path is a string of the tokens "/", "." and names without either.
Sep == "/"
Dot == "."

\* String.prototype.split('/')
RECURSIVE SplitPath(_)
SplitPath(p) ==
  LET i == IndexOf(p, Sep)
  IN IF i = -1 THEN <<p>> ELSE <<Slice(p, 0, i)>> \o SplitPath(SliceFrom(p, i + 1))

\* Array.prototype.join('/')
RECURSIVE JoinPath(_)
JoinPath(segs) ==
  IF segs = <<>> THEN <<>>
  ELSE IF Len(segs) = 1 THEN segs[1]
  ELSE segs[1] \o <<Sep>> \o JoinPath(Tail(segs))

\* path's normalizeString: drops empty and "." segments, resolves ".."
RECURSIVE normalizeString(_, _, _, _)
normalizeString(segs, i, allowAboveRoot, res) ==
  IF i > Len(segs) THEN res
  ELSE LET seg == segs[i]
       IN normalizeString(segs, i + 1, allowAboveRoot,
            IF seg = <<>> \/ seg = <<Dot>> THEN res
            ELSE IF seg = <<Dot, Dot>>
              THEN IF res # <<>> /\ res[Len(res)] # <<Dot, Dot>>
                     THEN SubSeq(res, 1, Len(res) - 1)
                     ELSE IF allowAboveRoot THEN Append(res, seg) ELSE res
            ELSE Append(res, seg))

\* path.normalize
pathNormalize(p) ==
  IF p = <<>> THEN <<Dot>>
  ELSE LET isAbsolute == p[1] = Sep
           trailingSeparator == p[Len(p)] = Sep
           body == JoinPath(normalizeString(SplitPath(p), 1, ~isAbsolute, <<>>))
       IN IF body = <<>>
            THEN (IF isAbsolute THEN <<Sep>>
                  ELSE IF trailingSeparator THEN <<Dot, Sep>> ELSE <<Dot>>)
            ELSE (IF isAbsolute THEN <<Sep>> ELSE <<>>) \o body
                 \o (IF trailingSeparator THEN <<Sep>> ELSE <<>>)

\* path.join(a, b, c): the non-empty arguments joined by '/', then normalized
pathJoin(a, b, c) ==
  pathNormalize(JoinPath(SelectSeq(<<a, b, c>>, LAMBDA x : x # <<>>)))

\* process.cwd() and os.homedir()
cwd == <<Sep, "w">>
homedir == <<Sep, "home", Sep, "u">>

\* path.resolve(p): p made absolute against the working directory, normalized,
\* without a trailing separator
pathResolve(p) ==
  LET resolvedPath == IF p # <<>> /\ p[1] = Sep THEN p
                      ELSE IF p = <<>> THEN cwd ELSE cwd \o <<Sep>> \o p
  IN <<Sep>> \o JoinPath(normalizeString(SplitPath(resolvedPath), 1, FALSE, <<>>))

AppDir == <<"stella2211-google-calendar-mcp">>
ConfigJson == <<"config", Dot, "json">>
DotConfig == <<Dot, "config">>

\* getPrivacyConfigPath taking the base directory before the override
getPrivacyConfigPath_baseFirst(override, base) ==
  IF Truthy(base) THEN pathJoin(base.v, AppDir, ConfigJson)
  ELSE IF Truthy(override) THEN pathResolve(override.v)
  ELSE pathJoin(pathJoin(homedir, DotConfig, <<>>), AppDir, ConfigJson)

\* getPrivacyConfigPath, override and base the values of
\* process.env.PRIVACY_CONFIG_PATH and process.env.XDG_CONFIG_HOME
getPrivacyConfigPath(override, base) ==
  IF Truthy(override) THEN pathResolve(override.v)
  ELSE LET configDir == Or(base, Str(pathJoin(homedir, DotConfig, <<>>)))
       IN pathJoin(configDir.v, AppDir, ConfigJson)

\* the values the two environment variables take: unset, empty, absolute (the base
\* with a trailing separator), and for the override relative too
CustomPath == <<Sep, "custom", Sep, "path", Sep, "config", Dot, "json">>
OverrideValues ==
  {Undef, Str(<<>>), Str(CustomPath), Str(<<"rel", Sep, Dot, Dot, Sep, "c", Dot, "json">>)}
BaseValues ==
  {Undef, Str(<<>>), Str(<<Sep, "xdg", Sep>>)}

----------------------------------------------------------------------------
(* What the file may hold *)

NameN == Str(<<"N">>)
NameM == Str(<<"M">>)
KeyLower == <<"a", "@", "x">>
KeyUpper == <<"A", "@", "x">>
MapKeys == {KeyLower, KeyUpper, ProtoKey}
MapValues == {NameN, NameM, Num(7)}

\* the sequences over S of length at most n
RECURSIVE SeqsUpTo(_, _)
SeqsUpTo(S, n) ==
  IF n = 0 THEN {<<>>}
  ELSE LET shorter == SeqsUpTo(S, n - 1)
       IN shorter \cup {Append(q, x) : q \in {r \in shorter : Len(r) = n - 1}, x \in S}

\* the member lists of an emailMappings object in the file text
MappingTexts == SeqsUpTo(MapKeys \X MapValues, MaxEntries)

\* JSON texts of objects: one with each emailMappings, and ones whose fields are ill-typed or unknown
ObjectTexts ==
  {Json(Parsed(<<<<EmailMappingsKey, Parsed(m)>>>>)) : m \in MappingTexts}
  \cup {Json(Parsed(<<>>)),
        Json(Parsed(<<<<VersionKey, Num(2)>>, <<DefaultCalendarIdKey, Str(<<"c">>)>>>>)),
        Json(Parsed(<<<<VersionKey, Str(<<"2">>)>>, <<EmailMappingsKey, Null>>,
                      <<DefaultCalendarIdKey, Str(<<>>)>>, <<<<"u">>, Num(0)>>>>))}

NonObjectTexts == {Json(Str(<<"s">>)), Json(Num(5)), Json(Null)}

Texts == ObjectTexts \cup NonObjectTexts \cup {Malformed}

Missing == [st |-> "ENOENT", c |-> Malformed]
Unreadable == [st |-> "EACCES", c |-> Malformed]
Holding(text) == [st |-> "ok", c |-> text]

FileStates == {Missing, Unreadable} \cup {Holding(text) : text \in Texts}

\* the states the tests and callers put the file in while the loader runs
WrittenObject == Holding(Json(Parsed(<<<<EmailMappingsKey, Parsed(<<<<KeyUpper, NameN>>>>)>>>>)))
WrittenStates == {Missing, Unreadable, WrittenObject}
\* the same, with the contents that do not parse or are not an object
FailingStates == WrittenStates \cup {Holding(Malformed), Holding(Json(Null))}
\* the same, with a second object that differs from the first in every field
OtherObject ==
  Holding(Json(Parsed(<<<<VersionKey, Num(2)>>,
                        <<EmailMappingsKey, Parsed(<<<<<<"b">>, NameM>>>>)>>,
                        <<DefaultCalendarIdKey, Str(<<"c">>)>>>>)))
CacheStates == FailingStates \cup {OtherObject}

NodeEnvs == {"test", "production"}

----------------------------------------------------------------------------
(* The loader as a state machine *)

StartTime == 100000
\* The clock advances so that the next call falls just before, then exactly on,
\* the end of a freshness window that opened at the previous advance.
TickStep(k) == IF k % 2 = 1 THEN CACHE_TTL - 1 ELSE 1
\* the number of clock advances that led to time t
Ticks(t) == 2 * ((t - StartTime) \div CACHE_TTL) + (IF (t - StartTime) % CACHE_TTL = 0 THEN 0 ELSE 1)

\* the loader the singleton accessor hands out, if any
Current == {instance} \ {0}

NewLoader == [config |-> Null, lastLoadTime |-> 0]
Pending == Thrown("pending")
Awaiting(i) == [pc |-> "await", inst |-> i, r |-> Pending]
Settled(i, r) == [pc |-> "settled", inst |-> i, r |-> r]
InFlight == BagToSet(calls)
NoEvent ==
  [op |-> "none", inst |-> 0, path |-> <<>>, saw |-> Pending, ret |-> Null,
   outcome |-> "none", diag |-> 0]

\* the freshness test with a window one millisecond short
IsFresh_shortWindow(o, t) == Truthy(o.config) /\ (t - o.lastLoadTime) < CACHE_TTL - 1

\* the freshness test with the end of the window included
IsFresh_inclusive(o, t) == Truthy(o.config) /\ (t - o.lastLoadTime) <= CACHE_TTL

\* loadConfig, the freshness test
IsFresh(o, t) == Truthy(o.config) /\ (t - o.lastLoadTime) < CACHE_TTL

\* loadConfig, the try block after the read settled with r
TryBlock(r) ==
  IF ~r.ok THEN Thrown(r.error)
  ELSE LET parsed == JSONparse(r.value)
       IN IF ~parsed.ok THEN Thrown(parsed.error)
          ELSE Returned(validateConfig(parsed.value))

\* the catch block rethrowing what is not ENOENT
CatchBlock_rethrows(error, env) ==
  IF error = "ENOENT"
    THEN [config |-> DEFAULT_PRIVACY_CONFIG, diag |-> 0, outcome |-> "resolved"]
    ELSE [config |-> DEFAULT_PRIVACY_CONFIG, diag |-> 0, outcome |-> "rejected"]

\* the catch block falling back to {} instead of a copy of the defaults
CatchBlock_emptyObject(error, env) ==
  IF error = "ENOENT"
    THEN [config |-> Obj(EmptyMap), diag |-> 0, outcome |-> "resolved"]
    ELSE [config |-> Obj(EmptyMap),
          diag |-> IF env # "test" THEN 1 ELSE 0, outcome |-> "resolved"]

\* the catch block without the ENOENT case
CatchBlock_warnsOnMissing(error, env) ==
  [config |-> DEFAULT_PRIVACY_CONFIG,
   diag |-> IF env # "test" THEN 1 ELSE 0, outcome |-> "resolved"]

\* loadConfig, the catch block
CatchBlock(error, env) ==
  IF error = "ENOENT"
    THEN [config |-> DEFAULT_PRIVACY_CONFIG, diag |-> 0, outcome |-> "resolved"]
    ELSE [config |-> DEFAULT_PRIVACY_CONFIG,
          diag |-> IF env # "test" THEN 1 ELSE 0, outcome |-> "resolved"]

\* validateConfig writing the mappings into the object its copy of the defaults shares
DefaultsAfterValidate_sharedMappings(parsed) ==
  IF TypeOf(parsed) # "object" \/ parsed = Null
    THEN DEFAULT_PRIVACY_CONFIG
    ELSE LET emailMappings == Prop(parsed, EmailMappingsKey)
         IN IF Truthy(emailMappings) /\ TypeOf(emailMappings) = "object"
              THEN Put(DEFAULT_PRIVACY_CONFIG, EmailMappingsKey,
                       MappingsLoop(ObjectEntries(emailMappings), 1,
                                    Get(DEFAULT_PRIVACY_CONFIG, EmailMappingsKey)))
              ELSE DEFAULT_PRIVACY_CONFIG

\* What validateConfig leaves in DEFAULT_PRIVACY_CONFIG. `{ ...DEFAULT_PRIVACY_CONFIG }`
\* copies the three properties, so that config.emailMappings is the constant's own
\* object until the assignment of a new object to it, which precedes the loop; every
\* other assignment is to a property of the copy.
DefaultsAfterValidate(parsed) == DEFAULT_PRIVACY_CONFIG

\* What loadConfig leaves in DEFAULT_PRIVACY_CONFIG from the point its read settled
\* with r: the catch block copies the constant and assigns to this.config only
DefaultsAfter(r) ==
  IF r.ok /\ JSONparse(r.value).ok
    THEN DefaultsAfterValidate(JSONparse(r.value).value)
    ELSE DEFAULT_PRIVACY_CONFIG

\* loadConfig, from the point its read settled with r
AfterAwait(r, env) ==
  LET t == TryBlock(r)
  IN IF t.ok THEN [config |-> t.value, diag |-> 0, outcome |-> "resolved"]
     ELSE CatchBlock(t.error, env)

\* A loader that is neither the singleton nor the receiver of a call in flight
\* is unreachable: its fields are cleared, as nothing can read them again.
Reachable(i, inst, cs) == i = inst \/ \E c \in BagToSet(cs) : c.inst = i
Collect(os, inst, cs) ==
  [i \in 1..Len(os) |-> IF Reachable(i, inst, cs) THEN os[i] ELSE NewLoader]
CollectPaths(ps, inst, cs) ==
  [i \in 1..Len(ps) |-> IF Reachable(i, inst, cs) THEN ps[i] ELSE <<>>]

\* the call of a pure function under check, and its result
NoCall ==
  [f |-> "none", email |-> Undef, name |-> Undef, config |-> Obj(EmptyMap),
   file |-> Missing, env |-> "test", parsed |-> Undef, email2 |-> Undef]
NoResult == [done |-> FALSE, res |-> Undef]

\* the state before the first getInstance(), the file in one of the states
\* files, NODE_ENV one of envs, the history recorded or not
Start(files, envs, h) ==
  /\ instance = 0
  /\ objs = <<>>
  /\ calls = EmptyBag
  /\ now = StartTime
  /\ file \in files
  /\ nodeEnv \in envs
  /\ DEFAULT_PRIVACY_CONFIG = Config(Num(1), Obj(EmptyMap), Undef)
  /\ PRIVACY_CONFIG_PATH = Undef
  /\ XDG_CONFIG_HOME = Undef
  /\ configPath = <<>>
  /\ ev = NoEvent
  /\ hist = h
  /\ doneAt = -1
  /\ loadedAt = -1
  /\ invalidated = FALSE
  /\ prior = Null
  /\ succeededAt = -1
  /\ changedSinceRead = FALSE
  /\ pin = NoCall
  /\ pout = NoResult

\* Any number of loaders, resets included: the file is missing, unreadable or
\* holds a mapping, and diagnostics are on.
Init == Start(WrittenStates, {"production"}, FALSE)

\* getInstance() constructing a loader on every call
GetInstance_alwaysConstructs ==
  /\ Len(objs) < MaxInstances
  /\ objs' = Append(objs, NewLoader)
  /\ instance' = Len(objs) + 1
  /\ configPath' = Append(configPath, getPrivacyConfigPath(PRIVACY_CONFIG_PATH, XDG_CONFIG_HOME))
  /\ UNCHANGED <<calls, now, file, nodeEnv, DEFAULT_PRIVACY_CONFIG, evars, ev, hvars, pin, pout>>

\* PrivacyConfigLoader.getInstance()
GetInstance ==
  /\ IF instance = 0
       THEN /\ Len(objs) < MaxInstances
            /\ objs' = Append(objs, NewLoader)
            /\ instance' = Len(objs) + 1
            /\ configPath' =
                 Append(configPath, getPrivacyConfigPath(PRIVACY_CONFIG_PATH, XDG_CONFIG_HOME))
       ELSE UNCHANGED <<objs, instance, configPath>>
  /\ UNCHANGED <<calls, now, file, nodeEnv, DEFAULT_PRIVACY_CONFIG, evars, ev, hvars, pin, pout>>

\* PrivacyConfigLoader.resetInstance()
ResetInstance ==
  /\ instance' = 0
  /\ objs' = Collect(objs, 0, calls)
  /\ configPath' = CollectPaths(configPath, 0, calls)
  /\ UNCHANGED <<calls, now, file, nodeEnv, DEFAULT_PRIVACY_CONFIG, evars, ev, hvars, pin, pout>>

\* loadConfig() joining the read already in flight on its loader
LoadConfig_coalesces(i) ==
  /\ IF IsFresh(objs[i], now)
       THEN /\ ev' = [op |-> "cached", inst |-> i, path |-> <<>>, saw |-> Pending,
                      ret |-> objs[i].config, outcome |-> "resolved", diag |-> 0]
            /\ doneAt' = IF hist THEN now ELSE doneAt
            /\ UNCHANGED <<calls, changedSinceRead>>
       ELSE /\ BagCardinality(calls) < MaxCalls
            /\ calls' = IF \E c \in InFlight : c.inst = i
                          THEN calls ELSE calls (+) SetToBag({Awaiting(i)})
            /\ ev' = [op |-> "readFile", inst |-> i, path |-> configPath[i], saw |-> Pending,
                      ret |-> Null, outcome |-> "none", diag |-> 0]
            /\ changedSinceRead' = FALSE
            /\ UNCHANGED doneAt
  /\ invalidated' = FALSE
  /\ UNCHANGED <<instance, objs, now, file, nodeEnv, DEFAULT_PRIVACY_CONFIG, hist, loadedAt, prior, succeededAt,
                 evars, configPath, pin, pout>>

\* getInstance().loadConfig() up to its return or its await, on loader i
LoadConfig(i) ==
  /\ IF IsFresh(objs[i], now)
       THEN /\ ev' = [op |-> "cached", inst |-> i, path |-> <<>>, saw |-> Pending,
                      ret |-> objs[i].config, outcome |-> "resolved", diag |-> 0]
            /\ doneAt' = IF hist THEN now ELSE doneAt
            /\ UNCHANGED <<calls, changedSinceRead>>
       ELSE /\ BagCardinality(calls) < MaxCalls
            /\ calls' = calls (+) SetToBag({Awaiting(i)})
            /\ ev' = [op |-> "readFile", inst |-> i, path |-> configPath[i], saw |-> Pending,
                      ret |-> Null, outcome |-> "none", diag |-> 0]
            /\ changedSinceRead' = FALSE
            /\ UNCHANGED doneAt
  /\ invalidated' = FALSE
  /\ UNCHANGED <<instance, objs, now, file, nodeEnv, DEFAULT_PRIVACY_CONFIG, hist, loadedAt, prior, succeededAt,
                 evars, configPath, pin, pout>>

\* the file system settles the read of call c with what the file holds now
ReadSettles(c) ==
  /\ c.pc = "await"
  /\ calls' = (calls (-) SetToBag({c})) (+) SetToBag({Settled(c.inst, readFile(file))})
  /\ UNCHANGED <<instance, objs, now, file, nodeEnv, DEFAULT_PRIVACY_CONFIG, ev, hvars, evars, configPath, pin, pout>>

\* loadConfig adding what it loaded to the mappings already cached
Resume_mergesMappings(c) ==
  /\ c.pc = "settled"
  /\ calls' = calls (-) SetToBag({c})
  /\ LET i == c.inst
         a == AfterAwait(c.r, nodeEnv)
         old == IF Truthy(objs[i].config) THEN objs[i].config.v[EmailMappingsKey].v ELSE EmptyMap
         merged == Obj([a.config.v EXCEPT ![EmailMappingsKey] = Obj(@.v @@ old)])
         written == [objs EXCEPT ![i] = [config |-> merged, lastLoadTime |-> now]]
     IN /\ objs' = Collect(written, instance, calls')
        /\ configPath' = CollectPaths(configPath, instance, calls')
        /\ ev' = [op |-> "resume", inst |-> i, path |-> <<>>, saw |-> c.r,
                  ret |-> merged, outcome |-> a.outcome, diag |-> a.diag]
        /\ doneAt' = IF hist THEN now ELSE doneAt
        /\ loadedAt' = IF hist THEN now ELSE loadedAt
        /\ prior' = IF hist THEN objs[i].config ELSE prior
        /\ succeededAt' = IF hist /\ TryBlock(c.r).ok THEN now ELSE succeededAt
        /\ DEFAULT_PRIVACY_CONFIG' = DefaultsAfter(c.r)
  /\ UNCHANGED <<instance, now, file, nodeEnv, evars, hist, invalidated, changedSinceRead, pin, pout>>

\* loadConfig of call c resumes after its await and runs to its return
Resume(c) ==
  /\ c.pc = "settled"
  /\ calls' = calls (-) SetToBag({c})
  /\ LET i == c.inst
         a == AfterAwait(c.r, nodeEnv)
         written == IF a.outcome = "resolved"
                      THEN [objs EXCEPT ![i] = [config |-> a.config, lastLoadTime |-> now]]
                      ELSE objs
     IN /\ objs' = Collect(written, instance, calls')
        /\ configPath' = CollectPaths(configPath, instance, calls')
        /\ ev' = [op |-> "resume", inst |-> i, path |-> <<>>, saw |-> c.r,
                  ret |-> IF a.outcome = "resolved" THEN a.config ELSE Null,
                  outcome |-> a.outcome, diag |-> a.diag]
        /\ doneAt' = IF hist THEN now ELSE doneAt
        /\ loadedAt' = IF hist THEN now ELSE loadedAt
        /\ prior' = IF hist THEN objs[i].config ELSE prior
        /\ succeededAt' = IF hist /\ TryBlock(c.r).ok THEN now ELSE succeededAt
        /\ DEFAULT_PRIVACY_CONFIG' = DefaultsAfter(c.r)
  /\ UNCHANGED <<instance, now, file, nodeEnv, evars, hist, invalidated, changedSinceRead, pin, pout>>

\* getInstance().invalidateCache() on loader i
InvalidateCache(i) ==
  /\ objs' = [objs EXCEPT ![i] = [config |-> Null, lastLoadTime |-> 0]]
  /\ doneAt' = -1
  /\ loadedAt' = -1
  /\ invalidated' = hist
  /\ UNCHANGED <<instance, calls, now, file, nodeEnv, DEFAULT_PRIVACY_CONFIG, ev, hist, prior, succeededAt,
                 changedSinceRead, evars, configPath, pin, pout>>

\* time passes
Tick ==
  /\ Ticks(now) < MaxTicks
  /\ now' = now + TickStep(Ticks(now) + 1)
  /\ UNCHANGED <<instance, objs, calls, file, nodeEnv, DEFAULT_PRIVACY_CONFIG, ev, hvars, evars, configPath, pin, pout>>

\* the file is written, removed or made unreadable
WriteFile(f) ==
  /\ f # file
  /\ file' = f
  /\ changedSinceRead' = hist
  /\ UNCHANGED <<instance, objs, calls, now, nodeEnv, DEFAULT_PRIVACY_CONFIG, ev, hist, doneAt, loadedAt, invalidated,
                 prior, succeededAt, evars, configPath, pin, pout>>

\* getInstance().getPath() on loader i
GetPath(i) ==
  /\ ev' = [op |-> "getPath", inst |-> i, path |-> <<>>, saw |-> Pending,
            ret |-> Str(configPath[i]), outcome |-> "none", diag |-> 0]
  /\ UNCHANGED <<instance, objs, calls, now, file, nodeEnv, DEFAULT_PRIVACY_CONFIG, evars, configPath, hvars, pin, pout>>

\* process.env.PRIVACY_CONFIG_PATH is set to x, or deleted (x undefined)
SetOverride(x) ==
  /\ x # PRIVACY_CONFIG_PATH
  /\ PRIVACY_CONFIG_PATH' = x
  /\ UNCHANGED <<instance, objs, calls, now, file, nodeEnv, DEFAULT_PRIVACY_CONFIG, XDG_CONFIG_HOME, configPath,
                 ev, hvars, pin, pout>>

\* process.env.XDG_CONFIG_HOME is set to x, or deleted (x undefined)
SetBase(x) ==
  /\ x # XDG_CONFIG_HOME
  /\ XDG_CONFIG_HOME' = x
  /\ UNCHANGED <<instance, objs, calls, now, file, nodeEnv, DEFAULT_PRIVACY_CONFIG, PRIVACY_CONFIG_PATH, configPath,
                 ev, hvars, pin, pout>>

Next ==
  \/ GetInstance
  \/ ResetInstance
  \/ \E i \in Current : LoadConfig(i)
  \/ \E c \in InFlight : ReadSettles(c)
  \/ \E c \in InFlight : Resume(c)
  \/ \E i \in Current : InvalidateCache(i)
  \/ Tick
  \/ \E f \in WrittenStates : WriteFile(f)

Spec == Init /\ [][Next]_vars

\* One loader from its construction on, its history recorded: the singleton is
\* not reset, the file also takes the contents that fail to load, and
\* diagnostics are on.
CacheInit == Start(CacheStates, {"production"}, TRUE)

CacheNext ==
  \/ GetInstance
  \/ \E i \in Current : LoadConfig(i)
  \/ \E c \in InFlight : ReadSettles(c)
  \/ \E c \in InFlight : Resume(c)
  \/ \E i \in Current : InvalidateCache(i)
  \/ Tick
  \/ \E f \in CacheStates : WriteFile(f)

CacheSpec == CacheInit /\ [][CacheNext]_vars

\* The loader while the environment variables that name the config file are
\* set and deleted. No file exists at any of the paths, so that
\* every read finds the same.
PathInit ==
  /\ instance = 0
  /\ objs = <<>>
  /\ calls = EmptyBag
  /\ now = StartTime
  /\ file = Missing
  /\ nodeEnv = "test"
  /\ DEFAULT_PRIVACY_CONFIG = Config(Num(1), Obj(EmptyMap), Undef)
  /\ PRIVACY_CONFIG_PATH \in OverrideValues
  /\ XDG_CONFIG_HOME \in BaseValues
  /\ configPath = <<>>
  /\ ev = NoEvent
  /\ hist = FALSE
  /\ doneAt = -1
  /\ loadedAt = -1
  /\ invalidated = FALSE
  /\ prior = Null
  /\ succeededAt = -1
  /\ changedSinceRead = FALSE
  /\ pin = NoCall
  /\ pout = NoResult

PathNext ==
  \/ GetInstance
  \/ ResetInstance
  \/ \E i \in Current : GetPath(i)
  \/ \E i \in Current : LoadConfig(i)
  \/ \E c \in InFlight : ReadSettles(c)
  \/ \E c \in InFlight : Resume(c)
  \/ \E x \in OverrideValues : SetOverride(x)
  \/ \E x \in BaseValues : SetBase(x)

PathSpec == PathInit /\ [][PathNext]_vars

\* The loader under callers that only load, with the file left alone: loads
\* are then started finitely often (once for the empty cache and once per
\* expiry), and the event loop runs every settled read's continuation.
LiveInit == Start(FailingStates, NodeEnvs, FALSE)

NextLive ==
  \/ GetInstance
  \/ \E i \in Current : LoadConfig(i)
  \/ \E c \in InFlight : ReadSettles(c)
  \/ \E c \in InFlight : Resume(c)
  \/ Tick

LiveSpec ==
  /\ LiveInit
  /\ [][NextLive]_vars
  /\ WF_vars(\E c \in InFlight : ReadSettles(c))
  /\ WF_vars(\E c \in InFlight : Resume(c))

----------------------------------------------------------------------------
(* The pure functions, applied to every input of a bounded set *)

EmailChars == {"a", "B", At}
UpperConstructor == <<"C", "o", "n", "s", "t", "r", "u", "c", "t", "o", "r">>
EmailStrings ==
  SeqsUpTo(EmailChars, MaxLen) \cup {ConstructorKey, UpperConstructor, ProtoKey}
Emails == {Undef, Null} \cup {Str(e) : e \in EmailStrings}

NameG == Str(<<"G">>)
DisplayNames == {Undef, Null, Str(<<>>), NameG}

\* the keys the emailMappings of a caller's config may have
ConfigKeys == {<<"b">>, <<"a", At, "b">>, <<"B">>, ConstructorKey}
MappingObjects ==
  UNION {{Obj(m) : m \in [K -> {NameN, NameM}]} : K \in SUBSET ConfigKeys}
\* Pick<PrivacyConfig, 'emailMappings'>: the property is optional
MaskerConfigs ==
  {Obj(EmptyMap)} \cup {Obj(EmailMappingsKey :> m) : m \in MappingObjects}

\* the values JSON.parse hands to validateConfig: values that are not objects,
\* and objects with each field absent, well-typed or ill-typed
UnknownKey == <<"u">>
Member(k, values) == {<<>>} \cup {<<<<k, x>>>> : x \in values}
VersionValues == {Num(2), Num(0), Str(<<"2">>), Null}
EmailMappingsValues ==
  {Null, Str(<<"m">>), Num(3), Parsed(<<>>),
   Parsed(<<<<KeyUpper, NameN>>, <<KeyLower, Num(7)>>>>)}
DefaultCalendarIdValues == {Str(<<"c">>), Str(<<>>), Num(4), Null}
ParsedObjects ==
  {Parsed(a \o b \o c \o d) :
     a \in Member(VersionKey, VersionValues),
     b \in Member(EmailMappingsKey, EmailMappingsValues),
     c \in Member(DefaultCalendarIdKey, DefaultCalendarIdValues),
     d \in Member(UnknownKey, {Num(0)})}
ParsedValues == {Null, Num(5), Str(<<"s">>)} \cup ParsedObjects

\* pairs of distinct emails with an '@' that agree on their first character
\* and on the text after their first '@'
AtEmails == {Str(e) : e \in {x \in SeqsUpTo(EmailChars, MaxLen) : Includes(x, At)}}
Domain(e) == SliceFrom(e.v, IndexOf(e.v, At) + 1)
EmailPairs ==
  {p \in AtEmails \X AtEmails :
     p[1] # p[2] /\ p[1].v[1] = p[2].v[1] /\ Domain(p[1]) = Domain(p[2])}
\* configs that know none, one or both of two emails of a pair
PairKeys == {<<"a", "a", At>>, <<"a", "b", At>>}
PairConfigs ==
  {Obj(EmptyMap)}
  \cup {Obj(EmailMappingsKey :> Obj([k \in K |-> NameN])) : K \in SUBSET PairKeys}
\* the emails looked up in a config that was loaded from the file
LookedUp ==
  {Str(KeyLower), Str(KeyUpper), Str(<<"a", At, "B">>), Str(<<"a">>),
   Str(ConstructorKey), Str(ProtoKey)}

PInit ==
  /\ instance = 0
  /\ objs = <<>>
  /\ calls = EmptyBag
  /\ now = StartTime
  /\ file = Missing
  /\ nodeEnv = "test"
  /\ DEFAULT_PRIVACY_CONFIG = Config(Num(1), Obj(EmptyMap), Undef)
  /\ PRIVACY_CONFIG_PATH = Undef
  /\ XDG_CONFIG_HOME = Undef
  /\ configPath = <<>>
  /\ ev = NoEvent
  /\ hist = FALSE
  /\ doneAt = -1
  /\ loadedAt = -1
  /\ invalidated = FALSE
  /\ prior = Null
  /\ succeededAt = -1
  /\ changedSinceRead = FALSE
  /\ pout = NoResult
  /\ \/ \E e \in Emails : pin = [NoCall EXCEPT !.f = "maskEmail", !.email = e]
     \/ \E e \in Emails, n \in DisplayNames, c \in MaskerConfigs :
          pin = [NoCall EXCEPT !.f = "applyEmailPrivacy", !.email = e, !.name = n, !.config = c]
     \/ \E f \in FileStates, e \in NodeEnvs :
          pin = [NoCall EXCEPT !.f = "load", !.file = f, !.env = e]
     \/ \E x \in ParsedValues : pin = [NoCall EXCEPT !.f = "validateConfig", !.parsed = x]
     \/ \E p \in EmailPairs, n \in {Undef, NameG}, c \in PairConfigs :
          pin = [NoCall EXCEPT !.f = "applyToPair", !.email = p[1], !.email2 = p[2],
                               !.name = n, !.config = c]
     \/ \E f \in FileStates, e \in LookedUp :
          pin = [NoCall EXCEPT !.f = "loadThenApply", !.file = f, !.email = e, !.name = NameG]

CallMaskEmail ==
  /\ pin.f = "maskEmail" /\ ~pout.done
  /\ pout' = [done |-> TRUE, res |-> maskEmail(pin.email)]
  /\ UNCHANGED <<lvars, pin>>

CallApplyEmailPrivacy ==
  /\ pin.f = "applyEmailPrivacy" /\ ~pout.done
  /\ pout' = [done |-> TRUE, res |-> applyEmailPrivacy(pin.email, pin.name, pin.config)]
  /\ UNCHANGED <<lvars, pin>>

\* a load of an Empty loader, from the read to the return: read, parse, validate or fall back
CallLoad ==
  /\ pin.f = "load" /\ ~pout.done
  /\ pout' = [done |-> TRUE, res |-> AfterAwait(readFile(pin.file), pin.env)]
  /\ UNCHANGED <<lvars, pin>>

CallValidateConfig ==
  /\ pin.f = "validateConfig" /\ ~pout.done
  /\ pout' = [done |-> TRUE, res |-> validateConfig(pin.parsed)]
  /\ UNCHANGED <<lvars, pin>>

\* applyEmailPrivacy on each email of a pair, with the same name and config
CallApplyToPair ==
  /\ pin.f = "applyToPair" /\ ~pout.done
  /\ pout' = [done |-> TRUE,
              res |-> <<applyEmailPrivacy(pin.email, pin.name, pin.config),
                        applyEmailPrivacy(pin.email2, pin.name, pin.config)>>]
  /\ UNCHANGED <<lvars, pin>>

\* applyEmailPrivacy(email, name, await loadPrivacyConfig()) on an Empty loader
CallLoadThenApply ==
  /\ pin.f = "loadThenApply" /\ ~pout.done
  /\ pout' = [done |-> TRUE,
              res |-> applyEmailPrivacy(pin.email, pin.name,
                                        AfterAwait(readFile(pin.file), pin.env).config)]
  /\ UNCHANGED <<lvars, pin>>

PNext ==
  \/ CallMaskEmail
  \/ CallApplyEmailPrivacy
  \/ CallLoad
  \/ CallValidateConfig
  \/ CallApplyToPair
  \/ CallLoadThenApply

PSpec == PInit /\ [][PNext]_vars

----------------------------------------------------------------------------
(* Vocabulary of the properties *)

\* a loadConfig() call returned in the last loader step
Completed == ev.op \in {"cached", "resume"}

\* a string without upper-case letters
IsLowercase(k) == \A n \in 1..Len(k) : k[n] \notin UpperChars

\* what a read found: "missing", "unreadable", "malformed",
\* "nonobject" (JSON that is not an object) or "object"
SawKind(r) ==
  IF ~r.ok THEN (IF r.error = "ENOENT" THEN "missing" ELSE "unreadable")
  ELSE IF r.value.k = "malformed" THEN "malformed"
  ELSE IF r.value.v.t = "parsed" THEN "object"
  ELSE "nonobject"

\* a value of type PrivacyConfig
IsPrivacyConfig(x) ==
  /\ x.t = "object"
  /\ DOMAIN x.v = {VersionKey, EmailMappingsKey, DefaultCalendarIdKey}
  /\ x.v[VersionKey].t \in {"number", "undefined"}
  /\ x.v[DefaultCalendarIdKey].t \in {"string", "undefined"}
  /\ x.v[EmailMappingsKey].t = "object"
  /\ \A k \in DOMAIN x.v[EmailMappingsKey].v : x.v[EmailMappingsKey].v[k].t = "string"

\* own keys of the emailMappings of a config (none when the property is absent)
MappingKeys(config) ==
  IF EmailMappingsKey \in DOMAIN config.v /\ config.v[EmailMappingsKey].t = "object"
    THEN DOMAIN config.v[EmailMappingsKey].v
    ELSE {}

----------------------------------------------------------------------------
(* C1 *)

\* loader i is asked to load within 60000 ms of the time `since`
WithinWindow(i, since) ==
  /\ LoadConfig(i)
  /\ since >= 0
  /\ now < since + 60000

ServedFromCache(i) ==
  /\ ev'.op = "cached"
  /\ ev'.ret = objs[i].config
  /\ Truthy(objs[i].config)
  /\ calls' = calls
  /\ objs' = objs

\* C1 as stated: once any loadConfig() call has completed at time t, a call
\* started before t + 60000 with no invalidateCache() in between is served
\* from the cache, reads nothing and leaves config and lastLoadTime alone.
C1_AnyCompletionOpensWindow ==
  [][\A i \in Current : WithinWindow(i, doneAt) => ServedFromCache(i)]_vars

\* C1 amended: the window opens when a loadConfig() call that read the file
\* completes; calls served from the cache do not extend it.
C1_ReadCompletionOpensWindow ==
  [][\A i \in Current : WithinWindow(i, loadedAt) => ServedFromCache(i)]_vars

\* a call was served from the cache 59999 ms after the load that filled it
C1_Witness ==
  /\ ev.op = "cached"
  /\ ev.inst = instance
  /\ loadedAt >= 0
  /\ doneAt = loadedAt + 59999
  /\ now = doneAt

(* C2 *)

\* C2: the first loadConfig() started after invalidateCache() returned reads
\* the file, whatever was in flight when the cache was invalidated.
C2_InvalidateForcesRead ==
  [][\A i \in Current : (LoadConfig(i) /\ invalidated) => ev'.op = "readFile"]_vars

(* C3 *)

\* C3: a loadConfig() call never rejects, what it resolves with is a
\* PrivacyConfig, and the calls in flight all come to resolve.
C3_LoadAlwaysResolves ==
  /\ [](Completed => (ev.outcome = "resolved" /\ IsPrivacyConfig(ev.ret)))
  /\ (calls # EmptyBag) ~> (calls = EmptyBag)

\* loads of a missing, unreadable, malformed, non-object and object file have
\* resolved: the last one is named, the loader state shows an earlier one
C3_Witness ==
  /\ ev.op = "resume"
  /\ SawKind(ev.saw) \in {"unreadable", "malformed"}
  /\ ev.outcome = "resolved"
  /\ calls = EmptyBag

(* C4 *)

FailedLoad(r) == SawKind(r) \in {"missing", "unreadable", "malformed"}

\* C4: a load whose read fails or whose content does not parse returns the
\* default config and caches it with the current time in place of what was
\* cached, so that the cache is Fresh again.
C4_FailureCachesDefaults ==
  [][\A c \in InFlight : (Resume(c) /\ FailedLoad(c.r)) =>
       /\ ev'.outcome = "resolved"
       /\ ev'.ret = Config(Num(1), Obj(EmptyMap), Undef)
       /\ Reachable(c.inst, instance, calls') =>
            /\ objs'[c.inst] = [config |-> Config(Num(1), Obj(EmptyMap), Undef),
                                lastLoadTime |-> now]
            /\ now - objs'[c.inst].lastLoadTime < 60000]_vars

\* a failed load replaced a cached mapping by the defaults
C4_Witness ==
  /\ ev.op = "resume"
  /\ FailedLoad(ev.saw)
  /\ prior.t = "object"
  /\ MappingKeys(prior) # {}
  /\ ev.inst = instance
  /\ objs[ev.inst] = [config |-> Config(Num(1), Obj(EmptyMap), Undef), lastLoadTime |-> now]

(* C5 *)

\* C5 as stated: one diagnostic for an unreadable file, malformed JSON and
\* non-object JSON unless NODE_ENV is 'test'; none for a missing file or an
\* object, however ill-typed its fields.
C5_DiagnosticsIncludingNonObject ==
  (pin.f = "load" /\ pout.done) =>
    pout.res.diag =
      IF SawKind(readFile(pin.file)) \in {"unreadable", "malformed", "nonobject"}
         /\ pin.env # "test"
        THEN 1 ELSE 0

\* C5 amended: non-object JSON falls back to the defaults without a diagnostic.
C5_DiagnosticsOnReadOrParseFailure ==
  (pin.f = "load" /\ pout.done) =>
    pout.res.diag =
      IF SawKind(readFile(pin.file)) \in {"unreadable", "malformed"} /\ pin.env # "test"
        THEN 1 ELSE 0

\* a load of malformed JSON outside a test run wrote its diagnostic
C5_Witness ==
  /\ pin.f = "load" /\ pout.done
  /\ SawKind(readFile(pin.file)) = "malformed"
  /\ pin.env = "production"
  /\ pout.res.diag = 1

(* C6 *)

\* C6: the keys of emailMappings are lowercase in every cached config and in
\* every config loadConfig() returns.
C6_KeysAreLowercase ==
  /\ \A i \in 1..Len(objs) :
       objs[i].config # Null => \A k \in MappingKeys(objs[i].config) : IsLowercase(k)
  /\ (Completed /\ ev.ret # Null) => \A k \in MappingKeys(ev.ret) : IsLowercase(k)

\* a file written with an upper-case key is cached under the lowercased key
C6_Witness ==
  /\ ev.op = "resume"
  /\ ev.saw.ok
  /\ SawKind(ev.saw) = "object"
  /\ ev.inst = instance
  /\ objs[ev.inst].config = ev.ret
  /\ MappingKeys(ev.ret) = {KeyLower}

(* C7 *)

\* the entries of the emailMappings object written to the file, when it is one
HasWrittenMappings ==
  /\ pin.f = "load" /\ pout.done
  /\ SawKind(readFile(pin.file)) = "object"
  /\ Prop(JSONparse(pin.file.c).value, EmailMappingsKey).t = "parsed"
WrittenEntries == Prop(JSONparse(pin.file.c).value, EmailMappingsKey).v
StringEntries == {n \in 1..Len(WrittenEntries) : WrittenEntries[n][2].t = "string"}
LoadedMappings == pout.res.config.v[EmailMappingsKey].v
\* the last written entry with a string value whose key lowercases to k
LastWritten(k) ==
  CHOOSE n \in StringEntries :
    /\ ToLowerCase(WrittenEntries[n][1]) = k
    /\ \A m \in StringEntries : ToLowerCase(WrittenEntries[m][1]) = k => m <= n

\* C7 as stated: the loaded keys are the lowercased keys of the written
\* entries with string values, and each such entry (K, V) is loaded as
\* lowercase(K) -> V, also when two written keys differ only in case.
C7_EveryStringEntryRoundTrips ==
  HasWrittenMappings =>
    /\ DOMAIN LoadedMappings = {ToLowerCase(WrittenEntries[n][1]) : n \in StringEntries}
    /\ \A n \in StringEntries :
         LoadedMappings[ToLowerCase(WrittenEntries[n][1])] = WrittenEntries[n][2]

\* C7 amended: the loaded keys are the lowercased keys of the written entries
\* with string values, "__proto__" excepted, and each loaded key maps to the
\* value of the last written string entry that lowercases to it.
C7_LastStringEntryRoundTrips ==
  HasWrittenMappings =>
    /\ DOMAIN LoadedMappings =
         {ToLowerCase(WrittenEntries[n][1]) : n \in StringEntries} \ {ProtoKey}
    /\ \A k \in DOMAIN LoadedMappings :
         LoadedMappings[k] = WrittenEntries[LastWritten(k)][2]

\* a file with an upper-case key, then the same key in lower case, was loaded
C7_Witness ==
  /\ HasWrittenMappings
  /\ WrittenEntries = <<<<KeyUpper, NameN>>, <<KeyLower, NameM>>>>
  /\ LoadedMappings = (KeyLower :> NameM)

(* C8 *)

KnownContact ==
  /\ pin.f = "applyEmailPrivacy" /\ pout.done
  /\ Truthy(pin.email)
  /\ ToLowerCase(pin.email.v) \in MappingKeys(pin.config)

\* C8: for an email whose lowercased form is a key of emailMappings the result
\* carries the email as given and the mapped name, whatever the external name.
C8_KnownContactIsShown ==
  KnownContact =>
    /\ pout.res.email = pin.email
    /\ pout.res.displayName = pin.config.v[EmailMappingsKey].v[ToLowerCase(pin.email.v)]

\* an upper-case email of a known contact came with an external name
C8_Witness ==
  /\ KnownContact
  /\ pin.email = Str(<<"a", At, "B">>)
  /\ pin.name = NameG
  /\ pout.res = [email |-> Str(<<"a", At, "B">>), displayName |-> NameN]

(* C9 *)

\* C9: an email that is not a key of emailMappings (or any email when there
\* are no emailMappings) comes back masked with the external name if one was
\* given; an absent or empty email comes back as "" with that name.
C9_UnknownEmailIsMasked ==
  (pin.f = "applyEmailPrivacy" /\ pout.done) =>
    IF ~Truthy(pin.email)
      THEN pout.res = [email |-> Str(<<>>),
                       displayName |-> IF Truthy(pin.name) THEN pin.name ELSE Undef]
      ELSE ToLowerCase(pin.email.v) \notin MappingKeys(pin.config) =>
             pout.res = [email |-> maskEmail(pin.email),
                         displayName |-> IF Truthy(pin.name) THEN pin.name ELSE Undef]

(* C10 *)

\* C10: maskEmail returns a string on every input: "" for an absent or empty
\* one, the input when it has no '@', else the first character of the part
\* before the first '@' (if any), "***@" and all that follows the first '@'.
C10_MaskEmailMatchesReference ==
  (pin.f = "maskEmail" /\ pout.done) =>
    LET e == pin.email
        r == pout.res
    IN /\ r.t = "string"
       /\ IF e.t # "string" \/ e.v = <<>> THEN r.v = <<>>
          ELSE IF \A n \in 1..Len(e.v) : e.v[n] # "@" THEN r.v = e.v
          ELSE \E n \in 1..Len(e.v) :
                 /\ e.v[n] = "@"
                 /\ \A m \in 1..(n - 1) : e.v[m] # "@"
                 /\ r.v = (IF n = 1 THEN <<>> ELSE <<e.v[1]>>)
                            \o <<"*", "*", "*", "@">> \o SubSeq(e.v, n + 1, Len(e.v))

\* an email with two '@' keeps the second one in its domain
C10_Witness ==
  /\ pin.f = "maskEmail" /\ pout.done
  /\ pin.email = Str(<<"B", "@", "@">>)
  /\ pout.res = Str(<<"B", "*", "*", "*", "@", "@">>)

(* C11 *)

\* a variable of the environment is set
IsSet(x) == x # Undef

\* the first getInstance() since the last reset constructs a loader
Constructs == instance = 0 /\ GetInstance

\* every loader that can still be used keeps its path, getPath() returns it
\* and loadConfig() reads it
PathIsStable ==
  /\ \A i \in 1..Len(configPath) :
       Reachable(i, instance', calls') => configPath'[i] = configPath[i]
  /\ \A i \in Current : GetPath(i) => ev'.ret = Str(configPath[i])
  /\ \A i \in Current : (LoadConfig(i) /\ ev'.op = "readFile") => ev'.path = configPath[i]

\* C11 as stated: a loader is constructed with the override variable as its
\* path if that is set, else with the base variable joined with the subpath if
\* that is set, else with the home directory's .config joined with the subpath;
\* the path stays what it was at construction whatever the variables become.
C11_PathIsTheVariableWhenSet ==
  [][/\ Constructs =>
         configPath'[instance'] =
           IF IsSet(PRIVACY_CONFIG_PATH) THEN PRIVACY_CONFIG_PATH.v
           ELSE IF IsSet(XDG_CONFIG_HOME)
             THEN pathJoin(XDG_CONFIG_HOME.v, AppDir, ConfigJson)
           ELSE pathJoin(homedir, DotConfig \o <<Sep>> \o AppDir, ConfigJson)
     /\ PathIsStable]_vars

\* C11 amended: a variable counts when it is set to a non-empty string, and the
\* override is resolved to an absolute normalized path against the working
\* directory.
C11_PathFromNonEmptyVariables ==
  [][/\ Constructs =>
         configPath'[instance'] =
           IF IsSet(PRIVACY_CONFIG_PATH) /\ PRIVACY_CONFIG_PATH.v # <<>>
             THEN pathResolve(PRIVACY_CONFIG_PATH.v)
           ELSE IF IsSet(XDG_CONFIG_HOME) /\ XDG_CONFIG_HOME.v # <<>>
             THEN pathJoin(XDG_CONFIG_HOME.v, AppDir, ConfigJson)
           ELSE pathJoin(homedir, DotConfig \o <<Sep>> \o AppDir, ConfigJson)
     /\ PathIsStable]_vars

\* a loader constructed while both variables were set still reports the
\* override after the override was deleted
C11_Witness ==
  /\ ev.op = "getPath"
  /\ ev.inst = instance
  /\ ev.ret = Str(CustomPath)
  /\ PRIVACY_CONFIG_PATH = Undef
  /\ IsSet(XDG_CONFIG_HOME)
  /\ getPrivacyConfigPath(PRIVACY_CONFIG_PATH, XDG_CONFIG_HOME) # CustomPath

(* C12 *)

\* C12: while the singleton is set, getInstance() returns it; after
\* resetInstance() the next getInstance() returns a loader that is none of the
\* earlier ones, with no config and lastLoadTime 0; and a load resuming on a
\* loader that is no longer the singleton leaves the singleton's cache alone.
C12_SingletonLifecycle ==
  [][/\ (GetInstance /\ instance # 0) => (instance' = instance /\ objs' = objs)
     /\ (GetInstance /\ instance = 0) =>
          /\ instance' \notin 1..Len(objs)
          /\ objs'[instance'] = [config |-> Null, lastLoadTime |-> 0]
          /\ \A c \in InFlight : c.inst # instance'
     /\ \A c \in InFlight :
          (Resume(c) /\ instance # 0 /\ c.inst # instance) =>
            (instance' = instance /\ objs'[instance] = objs[instance])]_vars

\* a load started before a reset resumed, reading a mapping, while the
\* loader constructed after the reset was still Empty
C12_Witness ==
  /\ ev.op = "resume"
  /\ ev.inst # instance
  /\ MappingKeys(ev.ret) # {}
  /\ instance = Len(objs)
  /\ instance > 1
  /\ objs[instance] = [config |-> Null, lastLoadTime |-> 0]

(* C13 *)

\* loader i, holding a config, is asked to load
LoadWithCachedConfig(i) == LoadConfig(i) /\ Truthy(objs[i].config)

\* C13 as stated: a loadConfig() call with a cached config reads the file if
\* and only if 60000 ms or more have passed since the last load that read and
\* validated the file; loads that fell back to the defaults do not count.
C13_StaleSinceSuccessfulLoad ==
  [][\A i \in Current : (LoadWithCachedConfig(i) /\ succeededAt >= 0) =>
       (ev'.op = "readFile" <=> now - succeededAt >= 60000)]_vars

\* C13 amended: the age is measured from the last load that completed, whether
\* it validated the file or fell back to the defaults.
C13_StaleSinceLastLoad ==
  [][\A i \in Current : LoadWithCachedConfig(i) =>
       /\ loadedAt >= 0
       /\ ev'.op = "readFile" <=> now - loadedAt >= 60000
       /\ ev'.op = "cached" <=> now - loadedAt < 60000]_vars

\* a call at age 59999 was served from the cache and the call at age 60000
\* is reading the file
C13_Witness ==
  /\ ev.op = "readFile"
  /\ ev.inst = instance
  /\ Truthy(objs[instance].config)
  /\ loadedAt >= 0
  /\ doneAt = loadedAt + 59999
  /\ now = loadedAt + 60000

(* C14 *)

Validated == pin.f = "validateConfig" /\ pout.done
\* the member k of the parsed object given to validateConfig, Undef when absent
Given(k) ==
  IF \E n \in 1..Len(pin.parsed.v) : pin.parsed.v[n][1] = k
    THEN pin.parsed.v[CHOOSE n \in 1..Len(pin.parsed.v) : pin.parsed.v[n][1] = k][2]
    ELSE Undef

\* C14: a value that is not a non-null object gives the defaults; an object
\* gives exactly the three fields of a config: its version if that is a
\* number and 1 if not, emailMappings rebuilt from its emailMappings if that is
\* a non-null object and {} if not, and its defaultCalendarId if that is a
\* non-empty string and none if not. Unknown fields are not copied.
C14_ValidationKeepsWellTypedFields ==
  Validated =>
    IF pin.parsed.t # "parsed"
      THEN pout.res = Config(Num(1), Obj(EmptyMap), Undef)
      ELSE /\ pout.res.t = "object"
           /\ DOMAIN pout.res.v = {VersionKey, EmailMappingsKey, DefaultCalendarIdKey}
           /\ pout.res.v[VersionKey] =
                IF Given(VersionKey).t = "number" THEN Given(VersionKey) ELSE Num(1)
           /\ pout.res.v[EmailMappingsKey].t = "object"
           /\ Given(EmailMappingsKey).t # "parsed" =>
                pout.res.v[EmailMappingsKey] = Obj(EmptyMap)
           /\ Given(EmailMappingsKey).t = "parsed" =>
                \A k \in DOMAIN pout.res.v[EmailMappingsKey].v :
                  \E n \in 1..Len(Given(EmailMappingsKey).v) :
                    /\ ToLowerCase(Given(EmailMappingsKey).v[n][1]) = k
                    /\ Given(EmailMappingsKey).v[n][2] = pout.res.v[EmailMappingsKey].v[k]
           /\ pout.res.v[DefaultCalendarIdKey] =
                IF Given(DefaultCalendarIdKey).t = "string" /\ Given(DefaultCalendarIdKey).v # <<>>
                  THEN Given(DefaultCalendarIdKey) ELSE Undef

\* an object with a string version, null emailMappings, an empty
\* defaultCalendarId and an unknown field was validated to the defaults
C14_Witness ==
  /\ Validated
  /\ pin.parsed =
       Parsed(<<<<VersionKey, Str(<<"2">>)>>, <<EmailMappingsKey, Null>>,
                <<DefaultCalendarIdKey, Str(<<>>)>>, <<UnknownKey, Num(0)>>>>)
  /\ pout.res = Config(Num(1), Obj(EmptyMap), Undef)

(* C15 *)

\* C15: a loadConfig() call that finds the cache Empty or Stale starts a read
\* of its own also while a read is in flight on its loader; and a call that
\* resumes with the content the call resumed before it on the same loader had
\* read returns an equal config and leaves that config cached, as the first
\* call alone did.
C15_OverlappingLoadsEachRead ==
  [][/\ \A i \in Current :
          (LoadConfig(i) /\ ~ServedFromCache(i) /\ \E c \in InFlight : c.inst = i) =>
            /\ BagCardinality(calls') = BagCardinality(calls) + 1
            /\ CopiesIn(Awaiting(i), calls') = CopiesIn(Awaiting(i), calls) + 1
     /\ \A c \in InFlight :
          (Resume(c) /\ ev.op = "resume" /\ ev.inst = c.inst /\ ev.saw = c.r) =>
            /\ ev'.ret = ev.ret
            /\ ev'.outcome = ev.outcome
            /\ Reachable(c.inst, instance, calls') =>
                 objs'[c.inst] = [config |-> ev.ret, lastLoadTime |-> now]]_vars

\* two reads were in flight at once; the first call has returned a mapping and
\* the second, which read the same content, is about to resume
C15_Witness ==
  /\ ev.op = "resume"
  /\ ev.inst = instance
  /\ MappingKeys(ev.ret) # {}
  /\ objs[instance].config = ev.ret
  /\ CopiesIn(Settled(instance, ev.saw), calls) = 1
  /\ BagCardinality(calls) = 1

(* C16 *)

\* what a load of each of the two objects written to the file caches
ConfigOfWrittenObject == Config(Num(1), Obj(KeyLower :> NameN), Undef)
ConfigOfOtherObject == Config(Num(2), Obj(<<"b">> :> NameM), Str(<<"c">>))

\* C16: the cached config is absent, the defaults, or what validation makes
\* of the content of one read, and is absent exactly when lastLoadTime is 0;
\* a step that changes a loader's cache either empties it or sets config and
\* lastLoadTime together, to what the resuming call returns and to the
\* current time.
C16_CacheReplacedWholesale ==
  /\ [](\A i \in 1..Len(objs) :
         /\ objs[i].config \in
              {Null, Config(Num(1), Obj(EmptyMap), Undef),
               ConfigOfWrittenObject, ConfigOfOtherObject}
         /\ objs[i].config = Null <=> objs[i].lastLoadTime = 0)
  /\ [][\A i \in 1..Len(objs) : objs'[i] # objs[i] =>
          \/ objs'[i] = [config |-> Null, lastLoadTime |-> 0]
          \/ \E c \in InFlight :
               /\ Resume(c) /\ c.inst = i
               /\ objs'[i] = [config |-> ev'.ret, lastLoadTime |-> now]]_vars

\* a reload replaced the cached first object by the second
C16_Witness ==
  /\ ev.op = "resume"
  /\ ev.inst = instance
  /\ prior = ConfigOfWrittenObject
  /\ objs[instance] = [config |-> ConfigOfOtherObject, lastLoadTime |-> now]

(* C17 *)

\* C17: once the loads in flight have all completed, and the file has not
\* changed since the latest of them started its read, a cached config is the
\* one derived from the content the file has: an older content that an
\* overlapping earlier read returned is not what stays cached.
C17_NoStaleOverwrite ==
  (/\ hist
   /\ instance # 0
   /\ calls = EmptyBag
   /\ ~changedSinceRead
   /\ Truthy(objs[instance].config)) =>
    objs[instance].config = AfterAwait(readFile(file), nodeEnv).config

(* C18 *)

\* no key of the emailMappings of the config equals the email when case is ignored
AbsentIgnoringCase(email, config) ==
  \A k \in MappingKeys(config) : ToLowerCase(k) # ToLowerCase(email.v)

\* the members of the emailMappings object in the text of file f (none when
\* f holds no such object)
MembersInFile(f) ==
  IF f.st = "ok" /\ f.c.k = "json" /\ f.c.v.t = "parsed"
     /\ (\E n \in 1..Len(f.c.v.v) :
           f.c.v.v[n][1] = EmailMappingsKey /\ f.c.v.v[n][2].t = "parsed")
    THEN f.c.v.v[CHOOSE n \in 1..Len(f.c.v.v) :
                   f.c.v.v[n][1] = EmailMappingsKey /\ f.c.v.v[n][2].t = "parsed"][2].v
    ELSE <<>>

\* C18: two emails with an '@' that are both absent from emailMappings (case
\* ignored) and agree on their first character and on the text after their
\* first '@' get identical results; and with a config loaded from the file,
\* the email of the result is other than the masked email only if the file's
\* emailMappings has a member with a string value whose key, lowercased, is
\* the lowercased email.
C18_MaskingHidesLocalPart ==
  /\ (/\ pin.f = "applyToPair" /\ pout.done
      /\ AbsentIgnoringCase(pin.email, pin.config)
      /\ AbsentIgnoringCase(pin.email2, pin.config)) =>
       pout.res[1] = pout.res[2]
  /\ (/\ pin.f = "loadThenApply" /\ pout.done
      /\ pout.res.email # maskEmail(pin.email)) =>
       \E n \in 1..Len(MembersInFile(pin.file)) :
         /\ MembersInFile(pin.file)[n][2].t = "string"
         /\ ToLowerCase(MembersInFile(pin.file)[n][1]) = ToLowerCase(pin.email.v)

\* two unknown emails that differ in the second character of the local part
\* came back as the same masked email, while the config knew a third one
C18_Witness ==
  /\ pin.f = "applyToPair" /\ pout.done
  /\ pin.email = Str(<<"a", "B", At>>)
  /\ pin.email2 = Str(<<"a", At>>)
  /\ MappingKeys(pin.config) = {<<"a", "a", At>>}
  /\ pout.res[1] = [email |-> Str(<<"a", "*", "*", "*", At>>), displayName |-> pin.name]
  /\ pout.res[2] = pout.res[1]

----------------------------------------------------------------------------
(* C19 *)

====
